---- MODULE Spec2Model ----
(***************************************************************************)
(* Content collections of the blog-portfolio site and the list pages that  *)
(* query them.                                                             *)
(*                                                                         *)
(* contentlayer.config.ts declares three document types and their computed *)
(* fields (slug, url); the generated module exports the three arrays       *)
(* allWritingPosts, allPolyglotPosts and allProjects.  The pages Home,     *)
(* WritingPage, PolyglotPage and ProjectsPage sort these arrays with       *)
(* Array.prototype.sort (in place), then slice, filter, count and collect  *)
(* tags.  Text is modelled as a tuple of one-character strings, a date as  *)
(* <<year, month, day>>.                                                   *)
(*                                                                         *)
(* Spec is the list pages on varied content.  SpecRoutes adds the detail   *)
(* pages /writing/[slug] and /polyglot/[slug], whose functions await their *)
(* parameters while list pages render.  SpecBuild is the build that makes  *)
(* the records from the content files.  SpecHeader is the navigation bar   *)
(* of the layout, SpecYears the Writing page on posts dated around a       *)
(* change of year.  `loaded` keeps the arrays as the build wrote them,     *)
(* `request` the detail-page call in flight, `build` the entries read and  *)
(* the validation errors, `pathname`, `isMobileMenuOpen` and `presses` the *)
(* state of the Header, `timeZone` the local time of the rendering process.*)
(***************************************************************************)
EXTENDS Integers, Sequences, FiniteSets, TLC

VARIABLES allWritingPosts, allPolyglotPosts, allProjects, selectedLanguage, rendered,
          loaded, request, build, pathname, isMobileMenuOpen, presses, timeZone

\* the state of the Header component, and the presses it has handled
headerState == <<pathname, isMobileMenuOpen, presses>>

vars == <<allWritingPosts, allPolyglotPosts, allProjects, selectedLanguage, rendered,
          loaded, request, build, headerState, timeZone>>

(***************************************************************************)
(* Bounds of the model.                                                    *)
(***************************************************************************)
\* largest number of documents in one collection
MaxPosts == 4
\* largest number of path segments after the namespace directory
MaxSegments == 2
\* largest number of presses of the menu button and of the mobile links
MaxPresses == 4

(***************************************************************************)
(* Generic helpers.                                                        *)
(***************************************************************************)
Range(s) == {s[i] : i \in 1..Len(s)}

Min(a, b) == IF a < b THEN a ELSE b

(***************************************************************************)
(* String.prototype.replace(pattern, replacement) with a string pattern:   *)
(* only the first occurrence of the pattern is replaced; a text without    *)
(* the pattern is returned unchanged.                                      *)
(***************************************************************************)
IndexOf(s, pat) ==
  LET hits == {i \in 1..(Len(s) - Len(pat) + 1) : SubSeq(s, i, i + Len(pat) - 1) = pat}
  IN IF hits = {} THEN 0 ELSE CHOOSE i \in hits : \A j \in hits : i <= j

Replace(s, pat, rep) ==
  LET i == IndexOf(s, pat)
  IN IF i = 0 THEN s
     ELSE SubSeq(s, 1, i - 1) \o rep \o SubSeq(s, i + Len(pat), Len(s))

\* every occurrence replaced, left to right (what String.prototype.replaceAll does)
RECURSIVE ReplaceAll(_, _, _)
ReplaceAll(s, pat, rep) ==
  LET i == IndexOf(s, pat)
  IN IF i = 0 THEN s
     ELSE SubSeq(s, 1, i - 1) \o rep \o ReplaceAll(SubSeq(s, i + Len(pat), Len(s)), pat, rep)

(***************************************************************************)
(* Text literals of contentlayer.config.ts.                                *)
(***************************************************************************)
WritingNs == <<"w", "r", "i", "t", "i", "n", "g", "/">>
PolyglotNs == <<"p", "o", "l", "y", "g", "l", "o", "t", "/">>
ProjectsNs == <<"p", "r", "o", "j", "e", "c", "t", "s", "/">>
WritingRoute == <<"/">> \o WritingNs
PolyglotRoute == <<"/">> \o PolyglotNs

(***************************************************************************)
(* Computed fields of the three document types.                            *)
(***************************************************************************)
WritingSlugDropSegment(flattenedPath) ==
  LET slash == IndexOf(flattenedPath, <<"/">>)
  IN IF slash = 0 THEN flattenedPath
     ELSE SubSeq(flattenedPath, slash + 1, Len(flattenedPath))

WritingSlugAll(flattenedPath) == ReplaceAll(flattenedPath, WritingNs, <<>>)
WritingSlug(flattenedPath) == Replace(flattenedPath, WritingNs, <<>>)

WritingUrlRaw(flattenedPath) == WritingRoute \o flattenedPath
WritingUrl(flattenedPath) == WritingRoute \o Replace(flattenedPath, WritingNs, <<>>)

PolyglotSlug(flattenedPath) == Replace(flattenedPath, PolyglotNs, <<>>)

PolyglotUrl(flattenedPath) == PolyglotRoute \o Replace(flattenedPath, PolyglotNs, <<>>)

ProjectSlugLastSegment(flattenedPath) ==
  LET slashes == {k \in 1..Len(flattenedPath) : flattenedPath[k] = "/"}
      last == CHOOSE k \in slashes : \A j \in slashes : j <= k
  IN IF slashes = {} THEN flattenedPath
     ELSE SubSeq(flattenedPath, last + 1, Len(flattenedPath))

ProjectSlug(flattenedPath) == Replace(flattenedPath, ProjectsNs, <<>>)

(***************************************************************************)
(* Materialized records: the authored fields the pages read, plus the      *)
(* computed fields.  An optional field that was not authored is absent     *)
(* from the record (undefined in the generated data).                      *)
(***************************************************************************)
WritingPost(flattenedPath, date, tags) ==
  [flattenedPath |-> flattenedPath, date |-> date, tags |-> tags,
   slug |-> WritingSlug(flattenedPath), url |-> WritingUrl(flattenedPath)]

PolyglotPost(flattenedPath, date, language) ==
  [flattenedPath |-> flattenedPath, date |-> date, language |-> language,
   slug |-> PolyglotSlug(flattenedPath), url |-> PolyglotUrl(flattenedPath)]

ProjectNoOrder(flattenedPath) ==
  [flattenedPath |-> flattenedPath, slug |-> ProjectSlug(flattenedPath)]

Project(flattenedPath, order) ==
  [flattenedPath |-> flattenedPath, slug |-> ProjectSlug(flattenedPath), order |-> order]

\* a project whose frontmatter names a related post
WithRelatedPost(project, relatedPost) == project @@ [relatedPost |-> relatedPost]

(***************************************************************************)
(* new Date(date).getTime(): the instant of a calendar date, counted here  *)
(* in whole days since 1970-01-01 (getTime counts milliseconds, 86 400 000 *)
(* to the day; the dates of the content are whole days).                   *)
(***************************************************************************)
IsLeapYear(y) == (y % 4 = 0 /\ y % 100 # 0) \/ y % 400 = 0

DaysBeforeYear(y) ==
  365 * (y - 1970) + ((y - 1969) \div 4) - ((y - 1901) \div 100) + ((y - 1601) \div 400)

DaysBeforeMonth(y, m) ==
  <<0, 31, 59, 90, 120, 151, 181, 212, 243, 273, 304, 334>>[m]
    + (IF m > 2 /\ IsLeapYear(y) THEN 1 ELSE 0)

GetTime(date) == DaysBeforeYear(date[1]) + DaysBeforeMonth(date[1], date[2]) + (date[3] - 1)

DaysInMonth(y, m) ==
  <<31, IF IsLeapYear(y) THEN 29 ELSE 28, 31, 30, 31, 30, 31, 31, 30, 31, 30, 31>>[m]

PreviousDay(date) ==
  IF date[3] > 1 THEN <<date[1], date[2], date[3] - 1>>
  ELSE IF date[2] > 1 THEN <<date[1], date[2] - 1, DaysInMonth(date[1], date[2] - 1)>>
  ELSE <<date[1] - 1, 12, 31>>

\* new Date(date).getFullYear(): the year of the instant in the local time of
\* the process.  A date of the content is the instant 00:00 UTC of its day,
\* timeZone the hours local time is ahead of UTC: behind UTC the local day is
\* the day before.
GetFullYear(date) == (IF timeZone < 0 THEN PreviousDay(date) ELSE date)[1]

(***************************************************************************)
(* The compare functions handed to Array.prototype.sort.                   *)
(***************************************************************************)
HasOrder(project) == "order" \in DOMAIN project

DateCmpAscending(a, b) == GetTime(a.date) - GetTime(b.date)
DateCmp(a, b) == GetTime(b.date) - GetTime(a.date)

OrderCmpDescending(a, b) ==
  IF HasOrder(a) /\ HasOrder(b) THEN b.order - a.order
  ELSE IF HasOrder(a) THEN -1
  ELSE IF HasOrder(b) THEN 1
  ELSE 0
OrderCmp(a, b) ==
  IF HasOrder(a) /\ HasOrder(b) THEN a.order - b.order
  ELSE IF HasOrder(a) THEN -1
  ELSE IF HasOrder(b) THEN 1
  ELSE 0

Compare(by, a, b) == IF by = "date" THEN DateCmp(a, b) ELSE OrderCmp(a, b)

(***************************************************************************)
(* Array.prototype.sort(comparefn): a stable sort (ECMAScript 2019), so    *)
(* with a consistent compare function its result is that of a stable       *)
(* insertion sort: each element is put behind the last element that does   *)
(* not compare greater than it (`places` holds the one place of that       *)
(* element, 0 if all compare greater).                                     *)
(***************************************************************************)
InsertBeforeEqual(by, s, x) ==
  LET places == {i \in 0..Len(s) :
                  /\ \A k \in (i + 1)..Len(s) : Compare(by, s[k], x) >= 0
                  /\ i > 0 => Compare(by, s[i], x) < 0}
  IN CHOOSE r \in {SubSeq(s, 1, j) \o <<x>> \o SubSeq(s, j + 1, Len(s)) : j \in places} : TRUE
Insert(by, s, x) ==
  LET places == {i \in 0..Len(s) :
                  /\ \A k \in (i + 1)..Len(s) : Compare(by, s[k], x) > 0
                  /\ i > 0 => Compare(by, s[i], x) <= 0}
  IN CHOOSE r \in {SubSeq(s, 1, j) \o <<x>> \o SubSeq(s, j + 1, Len(s)) : j \in places} : TRUE

\* (in the folds of this module, {v : acc \in {F[i - 1]}} evaluates the value
\* folded so far once, before the step that uses it several times)
SortFromLast(arr, by) ==
  LET n == Len(arr)
      F[i \in 0..n] ==
        IF i = 0 THEN <<>>
        ELSE CHOOSE r \in {Insert(by, acc, arr[n + 1 - i]) : acc \in {F[i - 1]}} : TRUE
  IN F[n]

Sort(arr, by) ==
  LET F[i \in 0..Len(arr)] ==
        IF i = 0 THEN <<>>
        ELSE CHOOSE r \in {Insert(by, acc, arr[i]) : acc \in {F[i - 1]}} : TRUE
  IN F[Len(arr)]

(***************************************************************************)
(* Array.prototype.slice(start, end) for 0 <= start <= end: the elements   *)
(* at the 0-based indices start .. end-1 that exist.                       *)
(***************************************************************************)
SliceOneMore(arr, start, end) == SubSeq(arr, start + 1, Min(end + 1, Len(arr)))
Slice(arr, start, end) == SubSeq(arr, start + 1, Min(end, Len(arr)))

\* the N of the home page's "recent posts" teasers: .slice(0, 3)
RecentCount == 3

(***************************************************************************)
(* PolyglotPage: filteredPosts and languageCounts.                         *)
(***************************************************************************)
LanguagesWithFrench == {"jp", "kr", "en", "es", "fr"}

Languages == {"jp", "kr", "en", "es"}

\* the codes of the LanguageFilter buttons
Selectors == {"all", "en", "jp", "kr", "es"}

\* sortedPosts.filter((post) => post.language === selectedLanguage)
FilterByLanguageFirstOnly(arr, language) ==
  LET hits == {i \in 1..Len(arr) : arr[i].language = language}
  IN IF hits = {} THEN <<>> ELSE <<arr[CHOOSE i \in hits : \A j \in hits : i <= j]>>

FilterByLanguage(arr, language) ==
  LET F[i \in 0..Len(arr)] ==
        IF i = 0 THEN <<>>
        ELSE IF arr[i].language = language THEN Append(F[i - 1], arr[i]) ELSE F[i - 1]
  IN F[Len(arr)]

FilteredPostsOthers(sortedPosts, selected) ==
  IF selected = "all" THEN sortedPosts
  ELSE LET F[i \in 0..Len(sortedPosts)] ==
             IF i = 0 THEN <<>>
             ELSE IF sortedPosts[i].language # selected
                  THEN Append(F[i - 1], sortedPosts[i]) ELSE F[i - 1]
       IN F[Len(sortedPosts)]
FilteredPosts(sortedPosts, selected) ==
  IF selected = "all" THEN sortedPosts ELSE FilterByLanguage(sortedPosts, selected)

\* acc[post.language] = (acc[post.language] || 0) + 1, from the empty object
CountStep(acc, language) ==
  [k \in DOMAIN acc \cup {language} |->
     IF k = language THEN (IF k \in DOMAIN acc THEN acc[k] ELSE 0) + 1 ELSE acc[k]]

LanguageCountsAllKeys(sortedPosts) ==
  LET F[i \in 0..Len(sortedPosts)] ==
        IF i = 0 THEN [k \in Languages |-> 0]
        ELSE CHOOSE r \in {CountStep(acc, sortedPosts[i].language) : acc \in {F[i - 1]}} : TRUE
  IN F[Len(sortedPosts)]
LanguageCountsFlag(sortedPosts) ==
  [k \in {sortedPosts[i].language : i \in 1..Len(sortedPosts)} |-> 1]
LanguageCounts(sortedPosts) ==
  LET F[i \in 0..Len(sortedPosts)] ==
        IF i = 0 THEN <<>>
        ELSE CHOOSE r \in {CountStep(acc, sortedPosts[i].language) : acc \in {F[i - 1]}} : TRUE
  IN F[Len(sortedPosts)]

\* {languageCounts["jp"] || 0}: what the stats block shows for a code
Displayed(languageCounts, code) ==
  IF code \in DOMAIN languageCounts /\ languageCounts[code] # 0
  THEN languageCounts[code] ELSE 0

(***************************************************************************)
(* WritingPage: allTags = Array.from(new Set(sortedPosts.flatMap(tags))).  *)
(* A Set keeps its values in the order of their first insertion.           *)
(***************************************************************************)
FlatMapTags(posts) ==
  LET F[i \in 0..Len(posts)] == IF i = 0 THEN <<>> ELSE F[i - 1] \o posts[i].tags
  IN F[Len(posts)]

SetOrderLast(values) ==
  LET keep == {i \in 1..Len(values) : \A j \in (i + 1)..Len(values) : values[j] # values[i]}
      F[i \in 0..Len(values)] ==
        IF i = 0 THEN <<>>
        ELSE IF i \in keep THEN Append(F[i - 1], values[i]) ELSE F[i - 1]
  IN F[Len(values)]
SetAdd(acc, value) == IF value \in Range(acc) THEN acc ELSE Append(acc, value)

SetOrder(values) ==
  LET F[i \in 0..Len(values)] ==
        IF i = 0 THEN <<>>
        ELSE CHOOSE r \in {SetAdd(acc, values[i]) : acc \in {F[i - 1]}} : TRUE
  IN F[Len(values)]

AllTags(sortedPosts) == SetOrder(FlatMapTags(sortedPosts))

(***************************************************************************)
(* The content the model is run on: what the files under content/ may hold.*)
(***************************************************************************)
MyPost == <<"m", "y", "-", "p", "o", "s", "t">>

\* a directory or file name below a namespace: "my-post", or the name of a namespace
SegmentNames ==
  {MyPost} \cup {SubSeq(ns, 1, Len(ns) - 1) : ns \in {WritingNs, PolyglotNs, ProjectsNs}}

RECURSIVE RestsOf(_)
RestsOf(n) ==
  IF n = 1 THEN SegmentNames
  ELSE {r \o <<"/">> \o s : r \in RestsOf(n - 1), s \in SegmentNames}

\* the paths below a namespace directory, without the file extension
AllRests == UNION {RestsOf(n) : n \in 1..MaxSegments}

Digits == <<"1", "2", "3", "4", "5", "6", "7", "8", "9">>

\* the i-th file of a collection whose paths are not varied: "n1", "n2", ...
DefaultRest(i) == <<"n", Digits[i]>>

Dates == {<<2024, 2, 29>>, <<2024, 3, 1>>, <<2026, 1, 15>>}

TagLists == {<<>>, <<"react">>, <<"python", "react">>, <<"react", "react">>}

\* no order authored, or the authored order
OrderChoices == {<<>>, <<1>>, <<2>>}

\* relatedPost of a project: none, the slug of the first writing post of the
\* run, or a slug no writing post of the run has
RelatedPostChoices == {<<>>, <<DefaultRest(1)>>, <<MyPost>>}

\* the fields of the i-th document where a run does not vary them
Cycle(values, i) == values[((i - 1) % Len(values)) + 1]

DatePattern(i) ==
  Cycle(<<<<2024, 3, 1>>, <<2026, 1, 15>>, <<2024, 3, 1>>, <<2024, 2, 29>>, <<2026, 1, 15>>>>, i)

TagPattern(i) ==
  Cycle(<<<<"react", "nextjs">>, <<>>, <<"python", "react">>, <<"nextjs">>, <<"react", "react">>>>, i)

LanguagePattern(i) == Cycle(<<"jp", "en", "jp", "es", "kr">>, i)

OrderPattern(i) == Cycle(<<<<2>>, <<>>, <<1>>, <<>>, <<2>>>>, i)

MakeProject(flattenedPath, choice) ==
  IF choice = <<>> THEN ProjectNoOrder(flattenedPath) ELSE Project(flattenedPath, choice[1])

\* collections of n documents "note-1" .. "note-n" with the given fields
WritingCollection(dates, tags) ==
  [i \in 1..Len(dates) |-> WritingPost(WritingNs \o DefaultRest(i), dates[i], tags[i])]

PolyglotCollection(dates, languages) ==
  [i \in 1..Len(dates) |-> PolyglotPost(PolyglotNs \o DefaultRest(i), dates[i], languages[i])]

ProjectCollection(choices) ==
  [i \in 1..Len(choices) |-> MakeProject(ProjectsNs \o DefaultRest(i), choices[i])]

RelatedCollection(choices) ==
  [i \in 1..Len(choices) |->
     LET project == MakeProject(ProjectsNs \o DefaultRest(i), OrderPattern(i))
     IN IF choices[i] = <<>> THEN project ELSE WithRelatedPost(project, choices[i][1])]

DatesOf(n) == [i \in 1..n |-> DatePattern(i)]
TagsOf(n) == [i \in 1..n |-> TagPattern(i)]
LanguagesOf(n) == [i \in 1..n |-> LanguagePattern(i)]
OrdersOf(n) == [i \in 1..n |-> OrderPattern(i)]

\* the collections of a run that varies another one: n documents, listed in
\* the order the pages show them
WritingListed(n) == Sort(WritingCollection(DatesOf(n), TagsOf(n)), "date")
PolyglotListed(n) == Sort(PolyglotCollection(DatesOf(n), LanguagesOf(n)), "date")
ProjectsListed(n) == Sort(ProjectCollection(OrdersOf(n)), "order")

(***************************************************************************)
(* Header.tsx: the navigation bar of the layout.  usePathname() gives the  *)
(* path of the current URL; the component keeps isMobileMenuOpen.          *)
(***************************************************************************)
Slash == <<"/">>

navigationItems ==
  <<[label |-> "Home", href |-> Slash],
    [label |-> "About", href |-> <<"/", "a", "b", "o", "u", "t">>],
    [label |-> "Projects", href |-> <<"/", "p", "r", "o", "j", "e", "c", "t", "s">>],
    [label |-> "Writing", href |-> <<"/", "w", "r", "i", "t", "i", "n", "g">>],
    [label |-> "Polyglot", href |-> <<"/", "p", "o", "l", "y", "g", "l", "o", "t">>]>>

\* String.prototype.startsWith(searchString)
StartsWith(text, searchString) ==
  /\ Len(searchString) <= Len(text)
  /\ SubSeq(text, 1, Len(searchString)) = searchString

isActiveLinkStartsWithOnly(href) == StartsWith(pathname, href)
isActiveLink(href) ==
  IF href = Slash THEN pathname = Slash ELSE StartsWith(pathname, href)

\* the links of the desktop bar and of the mobile menu, with their highlight
HeaderLinks ==
  [i \in 1..Len(navigationItems) |->
     [label |-> navigationItems[i].label, href |-> navigationItems[i].href,
      active |-> isActiveLink(navigationItems[i].href)]]

\* the component as mounted by a page load at a path: the menu is closed
Mounted(path) ==
  /\ pathname = path
  /\ isMobileMenuOpen = FALSE
  /\ presses = <<>>
\* hours the local time of the rendering process is ahead of UTC
\* (America/Sao_Paulo, UTC, Asia/Tokyo)
TimeZones == {-3, 0, 9}

\* dates around a change of year
YearEndDates == {<<2024, 12, 31>>, <<2025, 1, 1>>, <<2026, 1, 15>>}

(***************************************************************************)
(* Init: the generated collections as the build leaves them, no page       *)
(* rendered yet.  Each run varies one aspect of one collection (the dates, *)
(* the tags, the languages or the orders of its documents, in every        *)
(* listing order) and takes the rest from the patterns above.              *)
(***************************************************************************)
Loaded(writing, polyglot, projects) ==
  /\ allWritingPosts = writing
  /\ allPolyglotPosts = polyglot
  /\ allProjects = projects
  /\ selectedLanguage = "all"
  /\ rendered = [page |-> "none"]
  /\ loaded = [writing |-> writing, polyglot |-> polyglot, projects |-> projects]
  /\ request = [state |-> "none"]
  /\ build = [pending |-> <<>>, done |-> <<>>, errors |-> {}]

InitVaried ==
  \E n \in 0..MaxPosts :
    \/ \E d \in [1..n -> Dates] :
         Loaded(WritingCollection(d, TagsOf(n)), PolyglotListed(n), ProjectsListed(n))
    \/ \E t \in [1..n -> TagLists] :
         Loaded(WritingCollection(DatesOf(n), t), PolyglotListed(n), ProjectsListed(n))
    \/ \E d \in [1..n -> Dates] :
         Loaded(WritingListed(n), PolyglotCollection(d, LanguagesOf(n)), ProjectsListed(n))
    \/ \E l \in [1..n -> Languages] :
         Loaded(WritingListed(n), PolyglotCollection(DatesOf(n), l), ProjectsListed(n))
    \/ \E o \in [1..n -> OrderChoices] :
         Loaded(WritingListed(n), PolyglotListed(n), ProjectCollection(o))
    \/ \E r \in [1..n -> RelatedPostChoices] :
         Loaded(WritingListed(n), PolyglotListed(n), RelatedCollection(r))

\* two documents per collection: one at any path below the namespace, one in
\* a file directly below it
InitPaths ==
  \E rest \in AllRests, other \in SegmentNames :
    /\ rest # other
    /\ Loaded(<<WritingPost(WritingNs \o rest, DatePattern(1), TagPattern(1)),
                WritingPost(WritingNs \o other, DatePattern(2), TagPattern(2))>>,
              <<PolyglotPost(PolyglotNs \o rest, DatePattern(1), LanguagePattern(1)),
                PolyglotPost(PolyglotNs \o other, DatePattern(2), LanguagePattern(2))>>,
              <<MakeProject(ProjectsNs \o rest, OrderPattern(1)),
                MakeProject(ProjectsNs \o other, OrderPattern(2))>>)

Init == (InitVaried \/ InitPaths) /\ Mounted(Slash) /\ timeZone = 0

(***************************************************************************)
(* The pages.  Each action is one run of the page's function; `rendered`   *)
(* holds the values it computed, and the arrays it was given (before the   *)
(* in-place sort) as writingInput, polyglotInput and projectsInput.  The   *)
(* value of a page's const is bound with \E over a one-element set.        *)
(* selectedLanguage is the state of the mounted PolyglotPage: "all" at     *)
(* mount (useState("all")); it does not exist while another page is shown, *)
(* which the model shows as its initial value.                             *)
(***************************************************************************)
HomeWithoutSort ==
  /\ selectedLanguage' = "all"
  /\ rendered' = [page |-> "home",
                  writingInput |-> allWritingPosts,
                  polyglotInput |-> allPolyglotPosts,
                  recentWritingPosts |-> Slice(allWritingPosts, 0, RecentCount),
                  recentPolyglotPosts |-> Slice(allPolyglotPosts, 0, RecentCount)]
  /\ UNCHANGED <<allWritingPosts, allPolyglotPosts, allProjects, loaded,
                 request, build, headerState, timeZone>>

Home ==
  \E writing \in {Sort(allWritingPosts, "date")}, polyglot \in {Sort(allPolyglotPosts, "date")} :
     /\ allWritingPosts' = writing
     /\ allPolyglotPosts' = polyglot
     /\ selectedLanguage' = "all"
     /\ rendered' = [page |-> "home",
                     writingInput |-> allWritingPosts,
                     polyglotInput |-> allPolyglotPosts,
                     recentWritingPosts |-> Slice(writing, 0, RecentCount),
                     recentPolyglotPosts |-> Slice(polyglot, 0, RecentCount)]
     /\ UNCHANGED <<allProjects, loaded, request, build, headerState, timeZone>>

\* the BLOG STATS block: rendered under sortedPosts.length > 0
WritingStats(sortedPosts, allTags) ==
  IF Len(sortedPosts) > 0
  THEN [totalPosts |-> Len(sortedPosts),
        topics |-> Len(allTags),
        latestYear |-> GetFullYear(sortedPosts[1].date),
        started |-> GetFullYear(sortedPosts[Len(sortedPosts)].date)]
  ELSE <<>>

WritingPage ==
  \E sortedPosts \in {Sort(allWritingPosts, "date")} :
     /\ allWritingPosts' = sortedPosts
     /\ selectedLanguage' = "all"
     /\ rendered' = [page |-> "writing",
                     writingInput |-> allWritingPosts,
                     sortedPosts |-> sortedPosts,
                     allTags |-> AllTags(sortedPosts),
                     stats |-> WritingStats(sortedPosts, AllTags(sortedPosts))]
     /\ UNCHANGED <<allPolyglotPosts, allProjects, loaded, request, build,
                    headerState, timeZone>>

PolyglotViewStatsAlways(sortedPosts, filteredPosts, languageCounts) ==
  [showing |-> Len(filteredPosts),
   posts |-> IF Len(filteredPosts) > 0 THEN "grid"
             ELSE IF Len(sortedPosts) = 0 THEN "No posts yet"
             ELSE "No posts in this language",
   stats |-> [code \in Languages |-> Displayed(languageCounts, code)]]

\* what PolyglotPage returns: the number after "Showing", the posts grid or
\* the heading of the empty state, and the four numbers of the stats block
\* (no numbers when the block is not rendered)
PolyglotView(sortedPosts, filteredPosts, languageCounts) ==
  [showing |-> Len(filteredPosts),
   posts |-> IF Len(filteredPosts) > 0 THEN "grid"
             ELSE IF Len(sortedPosts) = 0 THEN "No posts yet"
             ELSE "No posts in this language",
   stats |-> IF Len(sortedPosts) > 0
             THEN [code \in Languages |-> Displayed(languageCounts, code)]
             ELSE <<>>]

\* the buttons of LanguageFilter, in the order of its languages array
languages == <<"all", "en", "jp", "kr", "es">>

LanguageFilterMarksAll(selected) ==
  [i \in 1..Len(languages) |->
     [code |-> languages[i], isSelected |-> selected = languages[i] \/ languages[i] = "all"]]

\* languages.map: each button with isSelected = (selectedLanguage === lang.code)
LanguageFilter(selected) ==
  [i \in 1..Len(languages) |->
     [code |-> languages[i], isSelected |-> selected = languages[i]]]

PolyglotRenderCountsFiltered(selected, clicked) ==
  \E sortedPosts \in {Sort(allPolyglotPosts, "date")} :
    \E filteredPosts \in {FilteredPosts(sortedPosts, selected)} :
     \E languageCounts \in {LanguageCounts(filteredPosts)} :
       /\ allPolyglotPosts' = sortedPosts
       /\ selectedLanguage' = selected
       /\ rendered' = [page |-> "polyglot",
                       polyglotInput |-> allPolyglotPosts,
                       sortedPosts |-> sortedPosts,
                       filteredPosts |-> filteredPosts,
                       languageCounts |-> languageCounts,
                       buttons |-> LanguageFilter(selected),
                       clicked |-> clicked,
                       view |-> PolyglotView(sortedPosts, filteredPosts, languageCounts)]
       /\ UNCHANGED <<allWritingPosts, allProjects, loaded, request, build,
                      headerState, timeZone>>

\* one run of PolyglotPage with the given value of its state; clicked is the
\* code of the button whose click caused the run, "none" at mount
PolyglotRender(selected, clicked) ==
  \E sortedPosts \in {Sort(allPolyglotPosts, "date")} :
    \E filteredPosts \in {FilteredPosts(sortedPosts, selected)},
       languageCounts \in {LanguageCounts(sortedPosts)} :
     /\ allPolyglotPosts' = sortedPosts
     /\ selectedLanguage' = selected
     /\ rendered' = [page |-> "polyglot",
                     polyglotInput |-> allPolyglotPosts,
                     sortedPosts |-> sortedPosts,
                     filteredPosts |-> filteredPosts,
                     languageCounts |-> languageCounts,
                     buttons |-> LanguageFilter(selected),
                     clicked |-> clicked,
                     view |-> PolyglotView(sortedPosts, filteredPosts, languageCounts)]
     /\ UNCHANGED <<allWritingPosts, allProjects, loaded, request, build,
                    headerState, timeZone>>

\* the page is mounted
PolyglotPage == PolyglotRender("all", "none")

\* a LanguageFilter button is clicked: onSelectLanguage(lang.code), then the re-render
SetSelectedLanguage ==
  /\ rendered.page = "polyglot"
  /\ \E i \in 1..Len(rendered.buttons) :
       PolyglotRender(rendered.buttons[i].code, rendered.buttons[i].code)

\* what ProjectCard renders of its relatedPost prop: the link in the hover
\* overlay and the link below the technologies, or neither
ProjectCard(project) ==
  [relatedPostLinks |->
     IF "relatedPost" \in DOMAIN project /\ project.relatedPost # <<>>
     THEN <<WritingRoute \o project.relatedPost, WritingRoute \o project.relatedPost>>
     ELSE <<>>]

ProjectsPage ==
  \E sortedProjects \in {Sort(allProjects, "order")} :
     /\ allProjects' = sortedProjects
     /\ selectedLanguage' = "all"
     /\ rendered' = [page |-> "projects",
                     projectsInput |-> allProjects,
                     sortedProjects |-> sortedProjects,
                     cards |-> [i \in 1..Len(sortedProjects) |->
                                  ProjectCard(sortedProjects[i])]]
     /\ UNCHANGED <<allWritingPosts, allPolyglotPosts, loaded, request, build,
                    headerState, timeZone>>

Next == Home \/ WritingPage \/ PolyglotPage \/ SetSelectedLanguage \/ ProjectsPage

Spec == Init /\ [][Next]_vars

(***************************************************************************)
(* The detail pages /writing/[slug] and /polyglot/[slug].  Each of their   *)
(* four async functions awaits the route parameters and then looks the     *)
(* slug up in the shared array.  `request` is the call in flight: between  *)
(* AwaitParams (the call, up to the await) and the action of the function  *)
(* (the rest of its body) any list page may be rendered.  atCall is the    *)
(* array as it was when the function was called, kept for the properties.  *)
(***************************************************************************)
Undefined == [undefined |-> TRUE]

FindFromSecond(arr, slug) ==
  LET hits == {i \in 2..Len(arr) : arr[i].slug = slug}
  IN IF hits = {} THEN Undefined
     ELSE arr[CHOOSE i \in hits : \A j \in hits : i <= j]

\* arr.find((p) => p.slug === slug)
Find(arr, slug) ==
  LET hits == {i \in 1..Len(arr) : arr[i].slug = slug}
  IN IF hits = {} THEN Undefined
     ELSE arr[CHOOSE i \in hits : \A j \in hits : i <= j]

DetailFunctions ==
  {"writing.generateMetadata", "WritingPostPage",
   "polyglot.generateMetadata", "PolyglotPostPage"}

ArrayOf(fn) ==
  IF fn \in {"writing.generateMetadata", "WritingPostPage"}
  THEN allWritingPosts ELSE allPolyglotPosts

\* a slug that no document of the model has
MissingSlug == <<"n", "o", "n", "e">>

\* the slugs a request may carry: those of the documents, and one of no document
RequestedSlugs ==
  {r.slug : r \in Range(allWritingPosts) \cup Range(allPolyglotPosts)} \cup {MissingSlug}

\* a detail function is called and suspends at `await params`
AwaitParams ==
  /\ request.state # "awaiting"
  /\ \E fn \in DetailFunctions, slug \in RequestedSlugs :
       request' = [state |-> "awaiting", fn |-> fn, slug |-> slug, atCall |-> ArrayOf(fn)]
  /\ UNCHANGED <<allWritingPosts, allPolyglotPosts, allProjects, selectedLanguage,
                 rendered, loaded, build, headerState, timeZone>>

Done(result) ==
  /\ request' = [state |-> "done", fn |-> request.fn, slug |-> request.slug,
                 atCall |-> request.atCall, result |-> result]
  /\ UNCHANGED <<allWritingPosts, allPolyglotPosts, allProjects, selectedLanguage,
                 rendered, loaded, build, headerState, timeZone>>

\* generateMetadata after the await: the metadata of the post, or the title
\* "Post Not Found"
GenerateMetadata(arr) ==
  \E post \in {Find(arr, request.slug)} :
    IF post = Undefined THEN Done([title |-> "Post Not Found"])
    ELSE Done([titleOf |-> post])

\* the page function after the await: notFound() throws, so the lines after
\* it run only with a post
PostPage(arr) ==
  \E post \in {Find(arr, request.slug)} :
    IF post = Undefined THEN Done([notFound |-> TRUE])
    ELSE Done([post |-> post])

WritingGenerateMetadata ==
  /\ request.state = "awaiting" /\ request.fn = "writing.generateMetadata"
  /\ GenerateMetadata(allWritingPosts)

WritingPostPage ==
  /\ request.state = "awaiting" /\ request.fn = "WritingPostPage"
  /\ PostPage(allWritingPosts)

PolyglotGenerateMetadata ==
  /\ request.state = "awaiting" /\ request.fn = "polyglot.generateMetadata"
  /\ GenerateMetadata(allPolyglotPosts)

PolyglotPostPage ==
  /\ request.state = "awaiting" /\ request.fn = "PolyglotPostPage"
  /\ PostPage(allPolyglotPosts)

GenerateStaticParamsUrl(arr) == [i \in 1..Len(arr) |-> [slug |-> arr[i].url]]

\* allWritingPosts.map((post) => ({ slug: post.slug }))
GenerateStaticParams(arr) == [i \in 1..Len(arr) |-> [slug |-> arr[i].slug]]

\* generateStaticParams of a detail route is called (it awaits nothing)
StaticParams(fn, arr) ==
  /\ request.state # "awaiting"
  /\ request' = [state |-> "params", fn |-> fn, atCall |-> arr,
                 params |-> GenerateStaticParams(arr)]
  /\ UNCHANGED <<allWritingPosts, allPolyglotPosts, allProjects, selectedLanguage,
                 rendered, loaded, build, headerState, timeZone>>

WritingGenerateStaticParams == StaticParams("writing.generateStaticParams", allWritingPosts)

PolyglotGenerateStaticParams == StaticParams("polyglot.generateStaticParams", allPolyglotPosts)

\* the site with its detail routes, on documents whose dates make the list
\* pages reorder the arrays: n documents per collection, or the two
\* documents "<namespace>/<namespace>/my-post" and "<namespace>/my-post"
NestedPair ==
  Loaded(<<WritingPost(WritingNs \o WritingNs \o MyPost, DatePattern(1), TagPattern(1)),
           WritingPost(WritingNs \o MyPost, DatePattern(2), TagPattern(2))>>,
         <<PolyglotPost(PolyglotNs \o PolyglotNs \o MyPost, DatePattern(1),
                        LanguagePattern(1)),
           PolyglotPost(PolyglotNs \o MyPost, DatePattern(2), LanguagePattern(2))>>,
         ProjectsListed(0))

InitRoutes ==
  /\ Mounted(Slash)
  /\ timeZone = 0
  /\ \/ \E n \in 0..MaxPosts :
          Loaded(WritingCollection(DatesOf(n), TagsOf(n)),
                 PolyglotCollection(DatesOf(n), LanguagesOf(n)),
                 ProjectsListed(n))
     \/ NestedPair

NextRoutes ==
  \/ Home \/ WritingPage \/ PolyglotPage \/ SetSelectedLanguage \/ ProjectsPage
  \/ AwaitParams
  \/ WritingGenerateMetadata \/ WritingPostPage
  \/ PolyglotGenerateMetadata \/ PolyglotPostPage
  \/ WritingGenerateStaticParams \/ PolyglotGenerateStaticParams

SpecRoutes == InitRoutes /\ [][NextRoutes]_vars

(***************************************************************************)
(* The pages that sort the writing posts, on posts dated around a change   *)
(* of year, rendered by a process in any of the time zones.                *)
(***************************************************************************)
InitYears ==
  /\ Mounted(Slash)
  /\ timeZone \in TimeZones
  /\ \E n \in 0..MaxPosts :
       \E d \in [1..n -> YearEndDates] :
         Loaded(WritingCollection(d, TagsOf(n)), PolyglotListed(n), ProjectsListed(n))

NextYears == Home \/ WritingPage

SpecYears == InitYears /\ [][NextYears]_vars

(***************************************************************************)
(* The Header in use: the visitor presses the menu button and the links.   *)
(* `presses` keeps the presses of the menu button ("toggle") and of the    *)
(* links of the mobile menu ("link"), oldest first.                        *)
(***************************************************************************)
\* the paths a page load can mount the layout at: "/", the pages of the
\* navigation, the detail pages, and paths that end at the not-found page
Pathnames ==
  LET hrefs == {navigationItems[i].href : i \in 1..Len(navigationItems)}
  IN hrefs
     \cup {post.url : post \in Range(allWritingPosts) \cup Range(allPolyglotPosts)}
     \cup {href \o <<"x">> : href \in hrefs}
     \cup {SubSeq(href, 1, Len(href) - 1) : href \in hrefs \ {Slash}}
     \cup {<<"/", "x">> \o href : href \in hrefs}

\* onClick of the menu button: setIsMobileMenuOpen(!isMobileMenuOpen)
ToggleMobileMenu ==
  /\ Len(presses) < MaxPresses
  /\ isMobileMenuOpen' = ~isMobileMenuOpen
  /\ presses' = Append(presses, "toggle")
  /\ UNCHANGED <<allWritingPosts, allPolyglotPosts, allProjects, selectedLanguage,
                 rendered, loaded, request, build, pathname, timeZone>>

\* a link of the mobile menu: onClick closes the menu, the router follows href
ClickMobileLinkKeepsMenu ==
  /\ Len(presses) < MaxPresses
  /\ \E i \in 1..Len(navigationItems) : pathname' = navigationItems[i].href
  /\ presses' = Append(presses, "link")
  /\ UNCHANGED <<allWritingPosts, allPolyglotPosts, allProjects, selectedLanguage,
                 rendered, loaded, request, build, isMobileMenuOpen, timeZone>>
ClickMobileLink ==
  /\ Len(presses) < MaxPresses
  /\ \E i \in 1..Len(navigationItems) : pathname' = navigationItems[i].href
  /\ isMobileMenuOpen' = FALSE
  /\ presses' = Append(presses, "link")
  /\ UNCHANGED <<allWritingPosts, allPolyglotPosts, allProjects, selectedLanguage,
                 rendered, loaded, request, build, timeZone>>

\* a link of the desktop bar has no onClick: the router follows href
ClickDesktopLink ==
  /\ \E i \in 1..Len(navigationItems) : pathname' = navigationItems[i].href
  /\ UNCHANGED <<allWritingPosts, allPolyglotPosts, allProjects, selectedLanguage,
                 rendered, loaded, request, build, isMobileMenuOpen, presses,
                 timeZone>>

\* the site name links to "/"
ClickLogo ==
  /\ pathname' = Slash
  /\ UNCHANGED <<allWritingPosts, allPolyglotPosts, allProjects, selectedLanguage,
                 rendered, loaded, request, build, isMobileMenuOpen, presses,
                 timeZone>>

\* a card of a list page links to post.url
FollowPostLink ==
  /\ \E post \in Range(allWritingPosts) \cup Range(allPolyglotPosts) :
       pathname' = post.url
  /\ UNCHANGED <<allWritingPosts, allPolyglotPosts, allProjects, selectedLanguage,
                 rendered, loaded, request, build, isMobileMenuOpen, presses,
                 timeZone>>

InitHeader ==
  /\ NestedPair
  /\ timeZone = 0
  /\ \E path \in Pathnames : Mounted(path)

NextHeader ==
  \/ ToggleMobileMenu \/ ClickMobileLink \/ ClickDesktopLink \/ ClickLogo
  \/ FollowPostLink

SpecHeader == InitHeader /\ [][NextHeader]_vars

(***************************************************************************)
(* Vocabulary of the properties.                                           *)
(***************************************************************************)
\* calendar order of two dates: d1 is d2 or an earlier day
NotLater(d1, d2) ==
  \/ d1[1] < d2[1]
  \/ d1[1] = d2[1] /\ d1[2] < d2[2]
  \/ d1[1] = d2[1] /\ d1[2] = d2[2] /\ d1[3] <= d2[3]

Count(s, x) == Cardinality({i \in 1..Len(s) : s[i] = x})

IsPermutation(s, t) ==
  /\ Len(s) = Len(t)
  /\ \A x \in Range(s) \cup Range(t) : Count(s, x) = Count(t, x)

\* the place of a record in a list that holds it once
Pos(s, x) == CHOOSE i \in 1..Len(s) : s[i] = x

DateDescending(s) == \A i \in 1..(Len(s) - 1) : NotLater(s[i + 1].date, s[i].date)

\* records of equal date stand in `out` as they stand in `in`
TiesKeepOrder(out, in) ==
  \A i, j \in 1..Len(in) :
    (i < j /\ in[i].date = in[j].date) => Pos(out, in[i]) < Pos(out, in[j])

\* s lists some of the records of t, each once, in the order they have in t
IsSublist(s, t) ==
  /\ Range(s) \subseteq Range(t)
  /\ Len(s) = Cardinality(Range(s))
  /\ \A i, j \in 1..Len(s) : i < j => Pos(t, s[i]) < Pos(t, s[j])

LanguagesOfPosts(posts) == {posts[i].language : i \in 1..Len(posts)}

Bearing(posts, code) == Cardinality({i \in 1..Len(posts) : posts[i].language = code})

(***************************************************************************)
(* C1: the chronological sort of the writing and polyglot collections      *)
(* (WritingPage, PolyglotPage, Home) returns a permutation of the array it *)
(* was given in which no record is followed by a record of a later date.   *)
(***************************************************************************)
C1_ChronologicalSort ==
  /\ rendered.page = "writing" =>
       /\ IsPermutation(rendered.sortedPosts, rendered.writingInput)
       /\ DateDescending(rendered.sortedPosts)
  /\ rendered.page = "polyglot" =>
       /\ IsPermutation(rendered.sortedPosts, rendered.polyglotInput)
       /\ DateDescending(rendered.sortedPosts)
  /\ rendered.page = "home" =>
       /\ IsPermutation(allWritingPosts, rendered.writingInput)
       /\ DateDescending(allWritingPosts)
       /\ IsPermutation(allPolyglotPosts, rendered.polyglotInput)
       /\ DateDescending(allPolyglotPosts)

\* WritingPage was given three posts of three different days, oldest first
C1_Witness ==
  /\ rendered.page = "writing"
  /\ Len(rendered.writingInput) = 3
  /\ rendered.writingInput[1].date = <<2024, 2, 29>>
  /\ rendered.writingInput[2].date = <<2024, 3, 1>>
  /\ rendered.writingInput[3].date = <<2026, 1, 15>>
  /\ rendered.sortedPosts =
       <<rendered.writingInput[3], rendered.writingInput[2], rendered.writingInput[1]>>

(***************************************************************************)
(* C2: the chronological sort is stable: two records of the same date keep *)
(* the relative order they had in the array given to the sort, whatever    *)
(* the order of the dates in that array.                                   *)
(***************************************************************************)
C2_StableSort ==
  /\ rendered.page = "writing" => TiesKeepOrder(rendered.sortedPosts, rendered.writingInput)
  /\ rendered.page = "polyglot" => TiesKeepOrder(rendered.sortedPosts, rendered.polyglotInput)

\* two notes of one day ahead of a newer note: the newer one moves to the front
C2_Witness ==
  /\ rendered.page = "polyglot"
  /\ Len(rendered.polyglotInput) = 3
  /\ rendered.polyglotInput[1].date = rendered.polyglotInput[2].date
  /\ rendered.polyglotInput[3].date = <<2026, 1, 15>>
  /\ rendered.polyglotInput[1].date = <<2024, 3, 1>>
  /\ rendered.sortedPosts =
       <<rendered.polyglotInput[3], rendered.polyglotInput[1], rendered.polyglotInput[2]>>

(***************************************************************************)
(* C3: ProjectsPage lists the projects that have an order first, by        *)
(* ascending order, then every project without one; projects that both     *)
(* lack an order, or have the same order, keep their relative order; the   *)
(* orders [2, undefined, 1] of [A, B, C] give [C, A, B].                   *)
(***************************************************************************)
OrderTie(a, b) ==
  \/ ~HasOrder(a) /\ ~HasOrder(b)
  \/ HasOrder(a) /\ HasOrder(b) /\ a.order = b.order

C3_OrderFieldSort ==
  rendered.page = "projects" =>
    LET in == rendered.projectsInput
        out == rendered.sortedProjects
    IN /\ IsPermutation(out, in)
       /\ \A i, j \in 1..Len(out) :
            (i < j /\ HasOrder(out[j])) => (HasOrder(out[i]) /\ out[i].order <= out[j].order)
       /\ \A i, j \in 1..Len(in) :
            (i < j /\ OrderTie(in[i], in[j])) => Pos(out, in[i]) < Pos(out, in[j])
       /\ ( /\ Len(in) = 3
            /\ HasOrder(in[1]) /\ in[1].order = 2
            /\ ~HasOrder(in[2])
            /\ HasOrder(in[3]) /\ in[3].order = 1 )
          => out = <<in[3], in[1], in[2]>>

C3_Witness ==
  /\ rendered.page = "projects"
  /\ Len(rendered.projectsInput) = 3
  /\ HasOrder(rendered.projectsInput[1]) /\ rendered.projectsInput[1].order = 2
  /\ ~HasOrder(rendered.projectsInput[2])
  /\ HasOrder(rendered.projectsInput[3]) /\ rendered.projectsInput[3].order = 1
  /\ rendered.sortedProjects =
       <<rendered.projectsInput[3], rendered.projectsInput[1], rendered.projectsInput[2]>>

(***************************************************************************)
(* C4: with the selector all, PolyglotPage shows the whole sorted          *)
(* collection; with a language code it shows exactly the records of that   *)
(* language, in the order they have in the sorted collection.              *)
(***************************************************************************)
C4_LanguageFilter ==
  rendered.page = "polyglot" =>
    /\ selectedLanguage \in Selectors
    /\ selectedLanguage = "all" => rendered.filteredPosts = rendered.sortedPosts
    /\ selectedLanguage # "all" =>
         /\ IsSublist(rendered.filteredPosts, rendered.sortedPosts)
         /\ Range(rendered.filteredPosts) =
              {r \in Range(rendered.sortedPosts) : r.language = selectedLanguage}

\* languages [jp, en, jp, es] under the selector jp: the two jp notes (the
\* sort had put the second file first)
C4_Witness ==
  /\ rendered.page = "polyglot"
  /\ selectedLanguage = "jp"
  /\ Len(rendered.sortedPosts) = 4
  /\ [i \in 1..4 |-> rendered.sortedPosts[i].language] = <<"jp", "en", "jp", "es">>
  /\ rendered.filteredPosts = <<rendered.sortedPosts[1], rendered.sortedPosts[3]>>
  /\ rendered.sortedPosts[1].flattenedPath = PolyglotNs \o DefaultRest(2)

(***************************************************************************)
(* C5 as stated: the language-count mapping always has exactly the four    *)
(* keys jp, kr, en and es.                                                 *)
(***************************************************************************)
C5_AlwaysFourKeys ==
  rendered.page = "polyglot" => DOMAIN rendered.languageCounts = Languages

(***************************************************************************)
(* C5, amended: the keys of the language-count mapping are exactly the     *)
(* languages that some record bears (none for the empty collection); for   *)
(* a code that no record bears the mapping has no key, and the value the   *)
(* stats block reads for it, languageCounts[code] || 0, is 0.              *)
(***************************************************************************)
C5_KeysOfLanguagesPresent ==
  rendered.page = "polyglot" =>
    /\ DOMAIN rendered.languageCounts = LanguagesOfPosts(rendered.sortedPosts)
    /\ \A code \in Languages \ LanguagesOfPosts(rendered.sortedPosts) :
         /\ code \notin DOMAIN rendered.languageCounts
         /\ Displayed(rendered.languageCounts, code) = 0

\* three notes, none of them Korean or Spanish
C5_Witness ==
  /\ rendered.page = "polyglot"
  /\ Len(rendered.sortedPosts) = 3
  /\ DOMAIN rendered.languageCounts = {"jp", "en"}
  /\ Displayed(rendered.languageCounts, "kr") = 0

(***************************************************************************)
(* C6: the four counts the stats block shows add up to the number of       *)
(* records of the collection, and each is the number of records bearing    *)
(* its code.                                                               *)
(***************************************************************************)
C6_CountsSumToSize ==
  rendered.page = "polyglot" =>
    /\ Displayed(rendered.languageCounts, "jp") + Displayed(rendered.languageCounts, "kr")
         + Displayed(rendered.languageCounts, "en") + Displayed(rendered.languageCounts, "es")
         = Len(rendered.polyglotInput)
    /\ \A code \in Languages :
         Displayed(rendered.languageCounts, code) = Bearing(rendered.polyglotInput, code)

C6_Witness ==
  /\ rendered.page = "polyglot"
  /\ Len(rendered.polyglotInput) = 4
  /\ Displayed(rendered.languageCounts, "jp") = 2
  /\ Displayed(rendered.languageCounts, "en") = 1
  /\ Displayed(rendered.languageCounts, "es") = 1
  /\ Displayed(rendered.languageCounts, "kr") = 0

(***************************************************************************)
(* C7: the home page's recent posts are the first 3 records of the         *)
(* chronologically sorted collection, or all of its records when it has    *)
(* fewer than 3, for the writing posts and for the polyglot notes.         *)
(***************************************************************************)
IsFirstN(recent, sorted, n) ==
  /\ Len(recent) = Min(n, Len(sorted))
  /\ \A i \in 1..Len(recent) : recent[i] = sorted[i]

C7_MostRecentN ==
  rendered.page = "home" =>
    /\ IsFirstN(rendered.recentWritingPosts, allWritingPosts, 3)
    /\ IsPermutation(allWritingPosts, rendered.writingInput)
    /\ DateDescending(rendered.recentWritingPosts)
    /\ IsFirstN(rendered.recentPolyglotPosts, allPolyglotPosts, 3)
    /\ IsPermutation(allPolyglotPosts, rendered.polyglotInput)
    /\ DateDescending(rendered.recentPolyglotPosts)

\* a collection of size 2: exactly its 2 records, newest first
C7_Witness ==
  /\ rendered.page = "home"
  /\ Len(rendered.writingInput) = 2
  /\ rendered.writingInput[1].date = <<2024, 2, 29>>
  /\ rendered.writingInput[2].date = <<2024, 3, 1>>
  /\ rendered.recentWritingPosts = <<rendered.writingInput[2], rendered.writingInput[1]>>

(***************************************************************************)
(* C8: allTags holds every tag of every post exactly once, ordered by the  *)
(* first appearance of the tag in the (sorted) collection.                 *)
(***************************************************************************)
FirstPost(posts, tag) ==
  CHOOSE k \in 1..Len(posts) :
    /\ tag \in Range(posts[k].tags)
    /\ \A l \in 1..(k - 1) : tag \notin Range(posts[l].tags)

FirstPlace(posts, tag) ==
  CHOOSE m \in 1..Len(posts[FirstPost(posts, tag)].tags) :
    /\ posts[FirstPost(posts, tag)].tags[m] = tag
    /\ \A l \in 1..(m - 1) : posts[FirstPost(posts, tag)].tags[l] # tag

AppearsBefore(posts, s, t) ==
  \/ FirstPost(posts, s) < FirstPost(posts, t)
  \/ FirstPost(posts, s) = FirstPost(posts, t) /\ FirstPlace(posts, s) < FirstPlace(posts, t)

C8_TagExtraction ==
  rendered.page = "writing" =>
    LET posts == rendered.sortedPosts
        tags == rendered.allTags
    IN /\ Range(tags) = UNION {Range(posts[k].tags) : k \in 1..Len(posts)}
       /\ Len(tags) = Cardinality(Range(tags))
       /\ \A i, j \in 1..Len(tags) : i < j => AppearsBefore(posts, tags[i], tags[j])

\* a tag on two posts, and a sort that changed the order of the posts
C8_Witness ==
  /\ rendered.page = "writing"
  /\ rendered.sortedPosts # rendered.writingInput
  /\ rendered.allTags = <<"python", "react">>
  /\ \E k, l \in 1..Len(rendered.sortedPosts) :
       k # l /\ "react" \in Range(rendered.sortedPosts[k].tags)
             /\ "react" \in Range(rendered.sortedPosts[l].tags)

(***************************************************************************)
(* C9: the slug of every record is its path without the leading namespace  *)
(* segment, the rest unchanged, also when the rest holds the namespace     *)
(* again; "writing/my-post" gives "my-post".                               *)
(***************************************************************************)
SlugIsRest(record, ns) ==
  /\ SubSeq(record.flattenedPath, 1, Len(ns)) = ns
  /\ record.slug = SubSeq(record.flattenedPath, Len(ns) + 1, Len(record.flattenedPath))

C9_SlugDerivation ==
  /\ \A r \in Range(allWritingPosts) :
       /\ SlugIsRest(r, WritingNs)
       /\ r.flattenedPath = WritingNs \o MyPost => r.slug = MyPost
  /\ \A r \in Range(allPolyglotPosts) : SlugIsRest(r, PolyglotNs)
  /\ \A r \in Range(allProjects) : SlugIsRest(r, ProjectsNs)

\* "writing/writing/my-post" has the slug "writing/my-post"
C9_Witness ==
  \E r \in Range(allWritingPosts) :
    /\ r.flattenedPath = WritingNs \o WritingNs \o MyPost
    /\ r.slug = WritingNs \o MyPost

(***************************************************************************)
(* C10: the url of every writing post is "/writing/" followed by its slug, *)
(* the url of every polyglot note "/polyglot/" followed by its slug.       *)
(***************************************************************************)
C10_UrlDerivation ==
  /\ \A r \in Range(allWritingPosts) : r.url = <<"/">> \o WritingNs \o r.slug
  /\ \A r \in Range(allPolyglotPosts) : r.url = <<"/">> \o PolyglotNs \o r.slug

\* "writing/my-post" has the url "/writing/my-post"
C10_Witness ==
  /\ \E r \in Range(allWritingPosts) :
       /\ r.flattenedPath = WritingNs \o MyPost
       /\ r.url = <<"/">> \o WritingNs \o MyPost
  /\ \E r \in Range(allPolyglotPosts) :
       /\ r.flattenedPath = PolyglotNs \o MyPost
       /\ r.url = <<"/">> \o PolyglotNs \o MyPost

(***************************************************************************)
(* The build: contentlayer reads each content file, checks its frontmatter *)
(* against the document type declared in contentlayer.config.ts and writes *)
(* the record with its computed fields into the generated array.  The      *)
(* declarations (required fields, enum options, computed fields) are those *)
(* of the config; what the build does with them is taken from the          *)
(* specification of the record materializer.  build.pending holds the      *)
(* entries still to be read, build.done those read, build.errors the       *)
(* validation errors reported.                                             *)
(***************************************************************************)
Kinds == {"WritingPost", "PolyglotPost", "Project"}

RequiredFieldsTagsOptional(kind) ==
  CASE kind = "WritingPost" -> {"title", "date", "description"}
    [] kind = "PolyglotPost" -> {"title", "date", "description", "language"}
    [] kind = "Project" -> {"title", "description", "technologies"}

\* the fields declared with required: true
RequiredFields(kind) ==
  CASE kind = "WritingPost" -> {"title", "date", "description", "tags"}
    [] kind = "PolyglotPost" -> {"title", "date", "description", "language"}
    [] kind = "Project" -> {"title", "description", "technologies"}

\* the fields of type enum that the entries of the model author, with their options
EnumOptions(kind) ==
  IF kind = "PolyglotPost" THEN [language |-> Languages] ELSE <<>>

\* filePathPattern: the directory of a document type
NamespaceOf(kind) ==
  CASE kind = "WritingPost" -> WritingNs
    [] kind = "PolyglotPost" -> PolyglotNs
    [] kind = "Project" -> ProjectsNs

ComputedFieldsUrlOnly(kind, flattenedPath) ==
  CASE kind = "WritingPost" ->
         [flattenedPath |-> flattenedPath, url |-> WritingUrl(flattenedPath)]
    [] kind = "PolyglotPost" ->
         [flattenedPath |-> flattenedPath, url |-> PolyglotUrl(flattenedPath)]
    [] kind = "Project" -> [flattenedPath |-> flattenedPath]

\* computedFields of a document type, resolved for a file
ComputedFields(kind, flattenedPath) ==
  CASE kind = "WritingPost" ->
         [flattenedPath |-> flattenedPath,
          slug |-> WritingSlug(flattenedPath), url |-> WritingUrl(flattenedPath)]
    [] kind = "PolyglotPost" ->
         [flattenedPath |-> flattenedPath,
          slug |-> PolyglotSlug(flattenedPath), url |-> PolyglotUrl(flattenedPath)]
    [] kind = "Project" ->
         [flattenedPath |-> flattenedPath, slug |-> ProjectSlug(flattenedPath)]

\* materialize: a ValidationError for each required field that is missing and
\* each enum value that is not an option; otherwise the record, in which a
\* computed field stands in place of an authored field of the same name
MaterializeEntry(entry) ==
  LET frontmatter == entry.frontmatter
      options == EnumOptions(entry.kind)
      missing == RequiredFields(entry.kind) \ DOMAIN frontmatter
      mismatched == {f \in DOMAIN frontmatter \cap DOMAIN options :
                      frontmatter[f] \notin options[f]}
      errors == {[error |-> "ValidationError", field |-> f, reason |-> "required"] :
                   f \in missing}
                \cup {[error |-> "ValidationError", field |-> f, reason |-> "enum"] :
                        f \in mismatched}
  IN IF errors # {} THEN [errors |-> errors]
     ELSE [record |-> ComputedFields(entry.kind, entry.flattenedPath) @@ frontmatter]

\* what a content file of the model may hold: text for slug and url that is
\* not the derived one, and a language that may be none of the options
AuthoredSlug == <<"m", "i", "n", "e">>

LanguageValues == Languages \cup {"fr"}

\* the fields an entry of the model may author: the required ones, and
\* fields named like the computed fields of its document type
AuthorableFields(kind) ==
  RequiredFields(kind) \cup (IF kind = "Project" THEN {"slug"} ELSE {"slug", "url"})

FieldValue(field, language) ==
  CASE field = "language" -> language
    [] field = "date" -> <<2026, 1, 15>>
    [] field \in {"tags", "technologies"} -> <<"react">>
    [] field = "slug" -> AuthoredSlug
    [] field = "url" -> <<"/">> \o AuthoredSlug
    [] OTHER -> <<"t", "e", "x", "t">>

EntriesOf(kind) ==
  {[kind |-> kind,
    flattenedPath |-> NamespaceOf(kind) \o MyPost,
    frontmatter |-> [f \in authored |-> FieldValue(f, language)]] :
     authored \in SUBSET AuthorableFields(kind), language \in LanguageValues}

Entries == UNION {EntriesOf(kind) : kind \in Kinds}

\* one content file is read
Materialize ==
  /\ build.pending # <<>>
  /\ \E entry \in {Head(build.pending)} :
       \E outcome \in {MaterializeEntry(entry)} :
         LET produced == IF "record" \in DOMAIN outcome THEN <<outcome.record>> ELSE <<>>
             writing == IF entry.kind = "WritingPost" THEN produced ELSE <<>>
             polyglot == IF entry.kind = "PolyglotPost" THEN produced ELSE <<>>
             projects == IF entry.kind = "Project" THEN produced ELSE <<>>
         IN /\ allWritingPosts' = allWritingPosts \o writing
            /\ allPolyglotPosts' = allPolyglotPosts \o polyglot
            /\ allProjects' = allProjects \o projects
            /\ loaded' = [writing |-> loaded.writing \o writing,
                          polyglot |-> loaded.polyglot \o polyglot,
                          projects |-> loaded.projects \o projects]
            /\ build' = [pending |-> Tail(build.pending),
                         done |-> Append(build.done, entry),
                         errors |-> IF "errors" \in DOMAIN outcome
                                    THEN build.errors \cup outcome.errors
                                    ELSE build.errors]
  /\ UNCHANGED <<selectedLanguage, rendered, request, headerState, timeZone>>

\* nothing generated yet, one content file to read
InitBuild ==
  \E entry \in Entries :
    /\ allWritingPosts = <<>>
    /\ allPolyglotPosts = <<>>
    /\ allProjects = <<>>
    /\ selectedLanguage = "all"
    /\ rendered = [page |-> "none"]
    /\ loaded = [writing |-> <<>>, polyglot |-> <<>>, projects |-> <<>>]
    /\ request = [state |-> "none"]
    /\ build = [pending |-> <<entry>>, done |-> <<>>, errors |-> {}]
    /\ Mounted(Slash)
    /\ timeZone = 0

NextBuild == Materialize

SpecBuild == InitBuild /\ [][NextBuild]_vars

(***************************************************************************)
(* C11: within one collection, two records at different paths have         *)
(* different slugs, so no two records of a kind share a slug.              *)
(***************************************************************************)
DistinctSlugs(collection) ==
  \A i, j \in 1..Len(collection) :
    collection[i].flattenedPath # collection[j].flattenedPath
      => collection[i].slug # collection[j].slug

C11_SlugInjective ==
  /\ DistinctSlugs(allWritingPosts)
  /\ DistinctSlugs(allPolyglotPosts)
  /\ DistinctSlugs(allProjects)

\* "writing/writing/my-post" and "writing/my-post" are in one collection,
\* as are "projects/writing/my-post" and "projects/my-post"
C11_Witness ==
  /\ {WritingNs \o WritingNs \o MyPost, WritingNs \o MyPost}
       = {r.flattenedPath : r \in Range(allWritingPosts)}
  /\ {WritingNs \o MyPost, MyPost} = {r.slug : r \in Range(allWritingPosts)}
  /\ {WritingNs \o MyPost, MyPost} = {r.slug : r \in Range(allProjects)}

(***************************************************************************)
(* C12: deriving the slug again from a slug gives the same slug.  As the   *)
(* claim states it, for every path below the namespace:                    *)
(***************************************************************************)
C12_SlugIdempotent ==
  /\ \A r \in Range(allWritingPosts) : WritingSlug(r.slug) = r.slug
  /\ \A r \in Range(allPolyglotPosts) : PolyglotSlug(r.slug) = r.slug
  /\ \A r \in Range(allProjects) : ProjectSlug(r.slug) = r.slug

Contains(text, part) ==
  \E i \in 1..(Len(text) - Len(part) + 1) : SubSeq(text, i, i + Len(part) - 1) = part

\* C12 as it holds: deriving the slug again from a slug gives the same slug
\* exactly when the slug does not hold the namespace string; when it does,
\* the second derivation removes that occurrence.
C12_IdempotentUnlessNamespaceRepeats ==
  /\ \A r \in Range(allWritingPosts) :
       WritingSlug(r.slug) = r.slug <=> ~Contains(r.slug, WritingNs)
  /\ \A r \in Range(allPolyglotPosts) :
       PolyglotSlug(r.slug) = r.slug <=> ~Contains(r.slug, PolyglotNs)
  /\ \A r \in Range(allProjects) :
       ProjectSlug(r.slug) = r.slug <=> ~Contains(r.slug, ProjectsNs)

\* the slug "polyglot/my-post" is the same when derived again as a writing
\* slug, and becomes "my-post" when derived again as a polyglot slug
C12_Witness ==
  /\ \E r \in Range(allWritingPosts) :
       /\ r.slug = PolyglotNs \o MyPost
       /\ WritingSlug(r.slug) = r.slug
  /\ \E r \in Range(allPolyglotPosts) :
       /\ r.flattenedPath = PolyglotNs \o PolyglotNs \o MyPost
       /\ r.slug = PolyglotNs \o MyPost
       /\ PolyglotSlug(r.slug) = MyPost

(***************************************************************************)
(* C14: a project card shows the links to the related post exactly when    *)
(* the project names a related post and a writing post with that slug      *)
(* exists; a relatedPost that matches no writing post is shown as none.    *)
(***************************************************************************)
C14_DanglingRelatedPostOmitted ==
  rendered.page = "projects" =>
    \A i \in 1..Len(rendered.sortedProjects) :
      LET project == rendered.sortedProjects[i]
      IN rendered.cards[i].relatedPostLinks # <<>>
           <=> /\ "relatedPost" \in DOMAIN project
               /\ \E post \in Range(allWritingPosts) : post.slug = project.relatedPost

(***************************************************************************)
(* C15: the pages only read the collections: after any renders each of the *)
(* three arrays holds the records it was loaded with, in the same order.   *)
(***************************************************************************)
C15_CollectionsReadOnly ==
  /\ allWritingPosts = loaded.writing
  /\ allPolyglotPosts = loaded.polyglot
  /\ allProjects = loaded.projects

(***************************************************************************)
(* C20: whatever was rendered before, a list page shows the records in the *)
(* order it shows when it is the first to render the loaded collection.    *)
(***************************************************************************)
C20_OrderIndependentOfHistory ==
  /\ rendered.page = "writing" => rendered.sortedPosts = Sort(loaded.writing, "date")
  /\ rendered.page = "polyglot" =>
       /\ rendered.sortedPosts = Sort(loaded.polyglot, "date")
       /\ rendered.filteredPosts
            = FilteredPosts(Sort(loaded.polyglot, "date"), selectedLanguage)
  /\ rendered.page = "projects" => rendered.sortedProjects = Sort(loaded.projects, "order")
  /\ rendered.page = "home" =>
       /\ rendered.recentWritingPosts = Slice(Sort(loaded.writing, "date"), 0, RecentCount)
       /\ rendered.recentPolyglotPosts = Slice(Sort(loaded.polyglot, "date"), 0, RecentCount)

\* WritingPage renders an array that an earlier render has reordered and that
\* holds two posts of one date
C20_Witness ==
  /\ rendered.page = "writing"
  /\ rendered.writingInput # loaded.writing
  /\ \E i, j \in 1..Len(rendered.sortedPosts) :
       i # j /\ rendered.sortedPosts[i].date = rendered.sortedPosts[j].date

(***************************************************************************)
(* C13: a detail function that finds no record with the requested slug     *)
(* ends in the not-found state (the page calls notFound() and reads no     *)
(* field of a post, generateMetadata returns the title "Post Not Found");  *)
(* one that finds a record renders that record.                            *)
(***************************************************************************)
Matching(fn, slug) == {r \in Range(ArrayOf(fn)) : r.slug = slug}

IsPageFunction(fn) == fn \in {"WritingPostPage", "PolyglotPostPage"}

C13_LookupBySlug ==
  request.state = "done" =>
    LET matching == Matching(request.fn, request.slug)
    IN /\ matching = {} /\ IsPageFunction(request.fn)
            => request.result = [notFound |-> TRUE]
       /\ matching = {} /\ ~IsPageFunction(request.fn)
            => request.result = [title |-> "Post Not Found"]
       /\ matching # {} /\ IsPageFunction(request.fn)
            => /\ DOMAIN request.result = {"post"}
               /\ request.result.post \in matching
       /\ matching # {} /\ ~IsPageFunction(request.fn)
            => /\ DOMAIN request.result = {"titleOf"}
               /\ request.result.titleOf \in matching

\* WritingPostPage has ended in notFound() although the collection has posts
C13_Witness ==
  /\ request.state = "done"
  /\ request.fn = "WritingPostPage"
  /\ request.slug = MissingSlug
  /\ request.result = [notFound |-> TRUE]
  /\ Len(allWritingPosts) = MaxPosts

(***************************************************************************)
(* C19: the record a detail function selects is the one it would have      *)
(* selected from the array as it was when the function was called, however *)
(* the list pages reordered the array while it awaited its parameters.     *)
(***************************************************************************)
Selected(result) ==
  IF "post" \in DOMAIN result THEN result.post
  ELSE IF "titleOf" \in DOMAIN result THEN result.titleOf
  ELSE Undefined

C19_SelectionIndependentOfRenders ==
  request.state = "done" =>
    Selected(request.result) = Find(request.atCall, request.slug)

\* PolyglotPostPage found its record in second place although the record
\* was in first place when the function was called
C19_Witness ==
  /\ request.state = "done"
  /\ request.fn = "PolyglotPostPage"
  /\ Len(request.atCall) > 1
  /\ request.atCall # allPolyglotPosts
  /\ request.atCall[1].slug = request.slug
  /\ allPolyglotPosts[2] = request.result.post

(***************************************************************************)
(* C16: an entry that lacks a required field of its kind (WritingPost:     *)
(* title, date, description, tags; PolyglotPost: title, date, description, *)
(* language; Project: title, description, technologies) gets a             *)
(* ValidationError naming that field and no record; an entry with all of   *)
(* them, well typed, gets a record that has every required field.          *)
(***************************************************************************)
Required(kind) ==
  IF kind = "WritingPost" THEN {"title", "date", "description", "tags"}
  ELSE IF kind = "PolyglotPost" THEN {"title", "date", "description", "language"}
  ELSE {"title", "description", "technologies"}

Generated == Range(allWritingPosts) \cup Range(allPolyglotPosts) \cup Range(allProjects)

WellTyped(entry) ==
  "language" \in DOMAIN entry.frontmatter /\ entry.kind = "PolyglotPost"
    => entry.frontmatter.language \in {"jp", "kr", "en", "es"}

C16_RequiredFields ==
  \A k \in 1..Len(build.done) :
    LET entry == build.done[k]
        lacking == Required(entry.kind) \ DOMAIN entry.frontmatter
    IN /\ \A f \in lacking :
            \E e \in build.errors : e.error = "ValidationError" /\ e.field = f
       /\ lacking # {} => Generated = {}
       /\ lacking = {} /\ WellTyped(entry) =>
            \E record \in Generated :
              \A f \in Required(entry.kind) :
                f \in DOMAIN record /\ record[f] = entry.frontmatter[f]

\* a writing entry without tags has been read: the error names tags
C16_Witness ==
  /\ build.done # <<>>
  /\ build.done[1].kind = "WritingPost"
  /\ DOMAIN build.done[1].frontmatter = {"title", "date", "description"}
  /\ build.errors = {[error |-> "ValidationError", field |-> "tags", reason |-> "required"]}
  /\ allWritingPosts = <<>>

(***************************************************************************)
(* C17: a polyglot entry whose language is none of jp, kr, en, es gets a   *)
(* ValidationError and no record, so every polyglot record has one of the  *)
(* four languages.                                                         *)
(***************************************************************************)
C17_EnumValidation ==
  /\ \A record \in Range(allPolyglotPosts) : record.language \in {"jp", "kr", "en", "es"}
  /\ \A k \in 1..Len(build.done) :
       LET entry == build.done[k]
       IN /\ entry.kind = "PolyglotPost"
          /\ "language" \in DOMAIN entry.frontmatter
          /\ entry.frontmatter.language \notin {"jp", "kr", "en", "es"}
          => /\ \E e \in build.errors : e.error = "ValidationError" /\ e.field = "language"
             /\ allPolyglotPosts = <<>>

\* a polyglot entry with every required field and the language "fr" has been read
C17_Witness ==
  /\ build.done # <<>>
  /\ build.done[1].kind = "PolyglotPost"
  /\ DOMAIN build.done[1].frontmatter = {"title", "date", "description", "language"}
  /\ build.done[1].frontmatter.language = "fr"
  /\ build.errors = {[error |-> "ValidationError", field |-> "language", reason |-> "enum"]}

(***************************************************************************)
(* C18: the slug and the url of a record are the ones derived from its     *)
(* path, also when the frontmatter of the entry authors a slug or a url.   *)
(***************************************************************************)
C18_ComputedOverridesAuthored ==
  /\ \A r \in Range(allWritingPosts) :
       /\ "slug" \in DOMAIN r /\ SlugIsRest(r, WritingNs)
       /\ r.url = <<"/">> \o WritingNs \o r.slug
  /\ \A r \in Range(allPolyglotPosts) :
       /\ "slug" \in DOMAIN r /\ SlugIsRest(r, PolyglotNs)
       /\ r.url = <<"/">> \o PolyglotNs \o r.slug
  /\ \A r \in Range(allProjects) :
       "slug" \in DOMAIN r /\ SlugIsRest(r, ProjectsNs)

\* a writing entry that authors slug and url has been made a record
C18_Witness ==
  /\ build.done # <<>>
  /\ {"slug", "url"} \subseteq DOMAIN build.done[1].frontmatter
  /\ build.done[1].frontmatter.slug = AuthoredSlug
  /\ Len(allWritingPosts) = 1
  /\ allWritingPosts[1].slug = MyPost

(***************************************************************************)
(* C21: the recent writing posts of the home page are the first            *)
(* min(3, size) posts of the Writing page, in the same order, and the      *)
(* recent polyglot notes the first min(3, size) notes of the Polyglot page *)
(* under the selector all, whichever of the two pages is rendered first.   *)
(***************************************************************************)
C21_HomeTeasersArePrefix ==
  [][/\ rendered.page = "home" /\ rendered'.page = "writing"
          => IsFirstN(rendered.recentWritingPosts, rendered'.sortedPosts, 3)
     /\ rendered.page = "writing" /\ rendered'.page = "home"
          => IsFirstN(rendered'.recentWritingPosts, rendered.sortedPosts, 3)
     /\ rendered.page = "home" /\ rendered'.page = "polyglot" /\ selectedLanguage' = "all"
          => IsFirstN(rendered.recentPolyglotPosts, rendered'.filteredPosts, 3)
     /\ rendered.page = "polyglot" /\ selectedLanguage = "all" /\ rendered'.page = "home"
          => IsFirstN(rendered'.recentPolyglotPosts, rendered.filteredPosts, 3)]_vars

\* the home page has shown three of four posts, taken from an array that
\* was not in the order of the dates, and three of four notes
C21_Witness ==
  /\ rendered.page = "home"
  /\ Len(rendered.writingInput) = 4
  /\ Len(rendered.recentWritingPosts) = 3
  /\ rendered.recentWritingPosts # SubSeq(rendered.writingInput, 1, 3)
  /\ Len(rendered.recentPolyglotPosts) = 3
  /\ Len(allPolyglotPosts) = 4

(***************************************************************************)
(* C22: on the Polyglot page the number after "Showing" is, for a selector *)
(* jp, kr, en or es, the number the stats block shows for that language,   *)
(* and for the selector all the size of the collection.  (The stats block  *)
(* is not rendered for the empty collection; the number shown is then 0.)  *)
(***************************************************************************)
C22_FilterAndCountsAgree ==
  rendered.page = "polyglot" =>
    /\ selectedLanguage = "all" => rendered.view.showing = Len(rendered.polyglotInput)
    /\ selectedLanguage # "all" /\ rendered.polyglotInput # <<>> =>
         /\ selectedLanguage \in DOMAIN rendered.view.stats
         /\ rendered.view.showing = rendered.view.stats[selectedLanguage]
    /\ rendered.polyglotInput = <<>> => rendered.view.showing = 0

\* "Showing 2 posts in Japanese" above the stats 2, 0, 1, 1
C22_Witness ==
  /\ rendered.page = "polyglot"
  /\ selectedLanguage = "jp"
  /\ rendered.view.showing = 2
  /\ rendered.view.stats = [jp |-> 2, kr |-> 0, en |-> 1, es |-> 1]

(***************************************************************************)
(* C23: selectedLanguage is "all" when the Polyglot page is mounted; after *)
(* any clicks on the filter buttons it is one of all, en, jp, kr, es, the  *)
(* code of the button clicked last; exactly one button is marked selected. *)
(***************************************************************************)
C23_SelectedLanguage ==
  /\ selectedLanguage \in {"all", "en", "jp", "kr", "es"}
  /\ rendered.page = "polyglot" =>
       /\ rendered.clicked = "none" => selectedLanguage = "all"
       /\ rendered.clicked # "none" => selectedLanguage = rendered.clicked
       /\ Cardinality({i \in 1..Len(rendered.buttons) : rendered.buttons[i].isSelected}) = 1
       /\ \A i \in 1..Len(rendered.buttons) :
            rendered.buttons[i].isSelected <=> rendered.buttons[i].code = selectedLanguage

\* the button "kr" was clicked last and is the one marked
C23_Witness ==
  /\ rendered.page = "polyglot"
  /\ rendered.clicked = "kr"
  /\ selectedLanguage = "kr"
  /\ rendered.buttons[4] = [code |-> "kr", isSelected |-> TRUE]
  /\ ~rendered.buttons[1].isSelected

(***************************************************************************)
(* C24: a click on a filter button changes only the filtered view: the     *)
(* sorted collection and its order, the per-language counts and the other  *)
(* collections stay as they were, and a click on "all" shows the whole     *)
(* sorted collection again.                                                *)
(***************************************************************************)
C24_SelectingChangesOnlyTheFilter ==
  [][rendered.page = "polyglot" /\ rendered'.page = "polyglot" /\ rendered'.clicked # "none"
       => /\ rendered'.sortedPosts = rendered.sortedPosts
          /\ rendered'.languageCounts = rendered.languageCounts
          /\ rendered'.view.stats = rendered.view.stats
          /\ allPolyglotPosts' = allPolyglotPosts
          /\ UNCHANGED <<allWritingPosts, allProjects>>
          /\ selectedLanguage' = "all" => rendered'.filteredPosts = rendered.sortedPosts]_vars

\* after a click on "all" the four notes are shown again, two of them of
\* one date, in an array that was loaded in another order
C24_Witness ==
  /\ rendered.page = "polyglot"
  /\ rendered.clicked = "all"
  /\ Len(rendered.filteredPosts) = 4
  /\ rendered.filteredPosts # loaded.polyglot
  /\ rendered.filteredPosts[1].date = rendered.filteredPosts[2].date

(***************************************************************************)
(* C25: the Polyglot page shows the posts grid iff some note matches the   *)
(* selector; otherwise "No posts yet" iff the collection is empty and "No  *)
(* posts in this language" iff it is not; under "all" a non-empty          *)
(* collection never shows an empty state; the stats block is shown iff the *)
(* collection is non-empty.                                                *)
(***************************************************************************)
MatchingSelector(posts, selected) ==
  {i \in 1..Len(posts) : selected = "all" \/ posts[i].language = selected}

C25_EmptyStates ==
  rendered.page = "polyglot" =>
    LET posts == rendered.polyglotInput
        matching == MatchingSelector(posts, selectedLanguage)
    IN /\ rendered.view.posts = "grid" <=> matching # {}
       /\ rendered.view.posts = "No posts yet" <=> posts = <<>>
       /\ rendered.view.posts = "No posts in this language"
            <=> posts # <<>> /\ matching = {}
       /\ selectedLanguage = "all" /\ posts # <<>> => rendered.view.posts = "grid"
       /\ DOMAIN rendered.view.stats = {"jp", "kr", "en", "es"} <=> posts # <<>>
       /\ rendered.view.stats = <<>> <=> posts = <<>>

\* three notes, none of them Korean, and the button "kr" clicked
C25_Witness ==
  /\ rendered.page = "polyglot"
  /\ selectedLanguage = "kr"
  /\ Len(rendered.polyglotInput) = 3
  /\ rendered.view.posts = "No posts in this language"
  /\ rendered.view.stats.kr = 0

(***************************************************************************)
(* C26: generateStaticParams returns one slug parameter per record of the  *)
(* collection; the lookup of the detail page finds a record for each of    *)
(* them, never the not-found state, and with distinct slugs it is the      *)
(* record the parameter was made from.                                     *)
(***************************************************************************)
ArrayOfParams(fn) ==
  IF fn = "writing.generateStaticParams" THEN allWritingPosts ELSE allPolyglotPosts

C26_StaticRoutesResolve ==
  /\ request.state = "params" =>
       LET arr == ArrayOfParams(request.fn)
       IN /\ Len(request.params) = Len(request.atCall)
          /\ \A i \in 1..Len(request.atCall) :
               /\ DOMAIN request.params[i] = {"slug"}
               /\ request.params[i].slug = request.atCall[i].slug
               /\ Find(arr, request.params[i].slug) # Undefined
               /\ DistinctSlugs(arr)
                    => Find(arr, request.params[i].slug) = request.atCall[i]
  /\ request.state = "done" /\ IsPageFunction(request.fn)
       /\ request.slug \in {p.slug : p \in Range(GenerateStaticParams(ArrayOf(request.fn)))}
       => /\ request.result # [notFound |-> TRUE]
          /\ request.result.post.slug = request.slug

\* the parameters of the polyglot route, and the array reordered by a list
\* page since they were made
C26_Witness ==
  /\ request.state = "params"
  /\ request.fn = "polyglot.generateStaticParams"
  /\ Len(request.params) = MaxPosts
  /\ allPolyglotPosts # request.atCall

IsPrefix(prefix, text) ==
  /\ Len(prefix) <= Len(text)
  /\ \A i \in 1..Len(prefix) : text[i] = prefix[i]

ActiveItems == {i \in 1..Len(HeaderLinks) : HeaderLinks[i].active}

\* C27: at every pathname the Home item is active iff the pathname is exactly
\* "/", each of the other items is active iff the pathname starts with its
\* href, and at most one of the five items is active.
C27_ActiveNavigationLink ==
  /\ Len(HeaderLinks) = 5
  /\ \A i \in 1..Len(HeaderLinks) :
       IF HeaderLinks[i].label = "Home"
       THEN HeaderLinks[i].active <=> pathname = Slash
       ELSE HeaderLinks[i].active <=> IsPrefix(HeaderLinks[i].href, pathname)
  /\ Cardinality(ActiveItems) <= 1

\* the visitor has followed the link of a card to "/writing/my-post": Writing,
\* and nothing else, is highlighted
C27_Witness ==
  /\ presses # <<>>
  /\ pathname = WritingRoute \o MyPost
  /\ \E i \in ActiveItems : HeaderLinks[i].label = "Writing"

\* a path that starts with no href: "/x/writing" highlights nothing
C27_WitnessNoneActive ==
  /\ pathname = <<"/", "x", "/", "w", "r", "i", "t", "i", "n", "g">>
  /\ ActiveItems = {}

LastLink(p) ==
  LET at == {i \in 1..Len(p) : p[i] = "link"}
  IN IF at = {} THEN 0 ELSE CHOOSE i \in at : \A j \in at : j <= i

TogglesSinceLink(p) == Cardinality({i \in (LastLink(p) + 1)..Len(p) : p[i] = "toggle"})

MenuStep ==
  /\ (presses' = Append(presses, "toggle")) => (isMobileMenuOpen' = ~isMobileMenuOpen)
  /\ (presses' = Append(presses, "link")) => ~isMobileMenuOpen'
  /\ isMobileMenuOpen' <=> (TogglesSinceLink(presses') % 2 = 1)

\* C28: the menu starts closed; a press of the menu button flips it; a press
\* of a link of the mobile menu leaves it closed whatever it was; so after any
\* presses the menu is open iff an odd number of presses of the button
\* followed the last press of a link (or the start).
C28_MobileMenuStateMachine ==
  /\ ~isMobileMenuOpen
  /\ [][MenuStep]_vars

\* button, link, button: the link was pressed while the menu was open, and the
\* menu is open again
C28_Witness ==
  /\ presses = <<"toggle", "link", "toggle">>
  /\ isMobileMenuOpen

\* the calendar year a date of the content is in
YearOf(date) == date[1]

MaxDate(posts) ==
  CHOOSE d \in {p.date : p \in Range(posts)} :
    \A p \in Range(posts) : GetTime(p.date) <= GetTime(d)

MinDate(posts) ==
  CHOOSE d \in {p.date : p \in Range(posts)} :
    \A p \in Range(posts) : GetTime(d) <= GetTime(p.date)

\* C29: on the Writing page with a non-empty collection "Latest Year" is the
\* year of the latest post date and "Started" the year of the earliest, so
\* Latest Year >= Started; the statistics block is rendered only when the
\* collection is non-empty.
C29_WritingStatistics ==
  rendered.page = "writing" =>
    /\ rendered.stats # <<>> <=> Len(rendered.writingInput) > 0
    /\ Len(rendered.writingInput) > 0 =>
         /\ rendered.stats.latestYear = YearOf(MaxDate(rendered.writingInput))
         /\ rendered.stats.started = YearOf(MinDate(rendered.writingInput))
         /\ rendered.stats.latestYear >= rendered.stats.started

\* what holds in every time zone: the block is rendered exactly for a
\* non-empty collection, reads the first and the last sorted post, which
\* carry the latest and the earliest date, and Latest Year >= Started
C29_StatsGuardedAndOrdered ==
  rendered.page = "writing" =>
    /\ rendered.stats # <<>> <=> Len(rendered.writingInput) > 0
    /\ Len(rendered.writingInput) > 0 =>
         /\ rendered.stats.latestYear = GetFullYear(MaxDate(rendered.writingInput))
         /\ rendered.stats.started = GetFullYear(MinDate(rendered.writingInput))
         /\ rendered.stats.latestYear >= rendered.stats.started
         /\ rendered.stats.totalPosts = Len(rendered.writingInput)

\* a post dated 2025-01-01 is the latest, and the page shows Latest Year 2024
C29_YearBeforeThePostDate ==
  /\ rendered.page = "writing"
  /\ Len(rendered.writingInput) > 1
  /\ MaxDate(rendered.writingInput) = <<2025, 1, 1>>
  /\ rendered.stats.latestYear = 2024
====
